---- MODULE Spec2Model ----
(***************************************************************************)
(* Lindenmayer system elaboration and turtle interpretation of             *)
(* rust_svg/src/main.rs.                                                   *)
(*                                                                         *)
(* Strings are sequences of one-character strings.  Lengths and positions  *)
(* are fixed point numbers in thousandths of a step (1000 == one step of   *)
(* 'F'), headings are whole degrees (the source converts lsys.angle from   *)
(* degrees to radians before use; cos and sin are tabulated per degree).   *)
(***************************************************************************)
EXTENDS Integers, Sequences, FiniteSets, TLC

VARIABLES
    lsys,       \* the LSys record being drawn
    order,      \* the order requested from lsys_draw_basic
    pc,         \* position of the program
    basic,      \* lsys_apply_rules: result of the main rule substitution
    post,       \* lsys_apply_rules: result of the post rule substitution
    rules,      \* lsys_dacts_from_rules: the string being interpreted
    i,          \* lsys_dacts_from_rules: index of the next character
    d,          \* heading, degrees
    x, y,       \* current position
    x0, y0,     \* bounding box, lower corner
    x1, y1,     \* bounding box, upper corner
    stack,      \* stack of saved (d,x,y)
    dacts,      \* drawing actions emitted so far
    pbb,        \* lsys_draw_basic: target box (px0,py0,px1,py1)
    sx, sy,     \* lsys_draw_basic: x and y scale factors
    pixel_per_step,     \* lsys_draw_basic: the scale factor picked
    path_x, path_y,     \* lsys_draw_basic: x, y, running position in pixels
    idact,      \* lsys_draw_basic: index of the next drawing action
    svg,        \* lsys_draw_basic: path commands written so far
    chunks,     \* main: the json chunks, as serde_json reads them
    lsysv,      \* main: the LSys records loaded
    cur,        \* main: index of the LSys being printed
    iorder,     \* lsys_draw_page: order slot being drawn
    ds,         \* the DocState
    trace,      \* the DocActs handed to doc() so far
    json,       \* json_to_chunks: the lines of the text being split
    iline,      \* json_to_chunks: index of the next line
    chunk,      \* json_to_chunks: lines of the chunk being collected
    inchunk     \* json_to_chunks: inside a chunk

turtle == <<i, d, x, y, x0, y0, x1, y1, stack, dacts>>

draw == <<pbb, sx, sy, pixel_per_step, path_x, path_y, idact, svg>>

outer == <<chunks, lsysv, cur, iorder, ds, trace>>

split == <<json, iline, chunk, inchunk>>

vars == <<lsys, order, pc, basic, post, rules, turtle, draw, outer, split>>

----------------------------------------------------------------------------
(* Bounds of the model *)

MaxStart == 2       \* longest start string of a catalog entry
MaxOrder == 4       \* largest order requested
MaxLen   == 4       \* longest string handed directly to the interpreter
MaxDrawOrder == 2   \* largest order of a drawing fitted into a box
MaxActs == 9        \* most DocActs handed to one DocState
MaxCurves == 2      \* most chunks of the examples file
MaxLines == 5       \* most lines of a text given to json_to_chunks

----------------------------------------------------------------------------
(* Program constants *)

ACTION_CHARS_no_f == <<"F", "+", "-", "[", "]", "|">>

\* pub static ACTIONS (ACTIONS is a reserved word of TLA+)
ACTION_CHARS == <<"F", "f", "+", "-", "[", "]", "|">>

ROTATION == -1

HALF_TURN == 180    \* PI, in degrees

MIN_SPAN == 100     \* 0.1 step

----------------------------------------------------------------------------
(* Input alphabets and catalogs *)

Chars == {"F", "f", "+", "-", "[", "]", "|", "A", "B"}

TurtleChars == {"F", "f", "+", "-", "[", "]", "|", "A"}

Angles == {90, 5}

RECURSIVE StringsUpTo(_, _)
StringsUpTo(S, n) ==
    IF n = 0 THEN {<<>>}
    ELSE LET shorter == StringsUpTo(S, n - 1)
         IN  shorter \cup {Append(s, c) : s \in shorter, c \in S}

\* the string of test_rules_minimize, "AFBfC+D-E[G]H|I", with its
\* non-action characters taken from Chars
MixedStart ==
    <<"A", "F", "B", "f", "A", "+", "B", "-", "A", "[", "B", "]", "A", "|", "B">>

NoRules == <<>>

FibRules == ("A" :> <<"A", "B">>) @@ ("B" :> <<"A">>)

TreeRules == ("A" :> <<"F", "[", "+", "A", "]">>)

KochRules == ("F" :> <<"-", "F", "+">>)

DrawRules == ("A" :> <<"F", "A">>) @@ ("B" :> <<"-", "F">>)

RuleMaps == {NoRules, FibRules, TreeRules, KochRules}

PostRuleMaps == {NoRules, DrawRules}

----------------------------------------------------------------------------
(* rules_apply_basic *)

RECURSIVE rewrite_pass_drop(_, _, _)
rewrite_pass_drop(rs, old, new) ==
    IF old = <<>> THEN new
    ELSE LET c == Head(old)
         IN  rewrite_pass_drop(rs, Tail(old),
                 IF c \in DOMAIN rs THEN new \o rs[c] ELSE new)

\* the inner while loop: remove the first character of old, append its
\* substitution (or the character itself) to new, until old is empty
RECURSIVE rewrite_pass(_, _, _)
rewrite_pass(rs, old, new) ==
    IF old = <<>> THEN new
    ELSE LET c == Head(old)
         IN  rewrite_pass(rs, Tail(old),
                 IF c \in DOMAIN rs THEN new \o rs[c] ELSE Append(new, c))

RECURSIVE rules_apply_loop_inclusive(_, _, _)
rules_apply_loop_inclusive(rs, new, n) ==
    IF n < 0 THEN new
    ELSE rules_apply_loop_inclusive(rs, rewrite_pass(rs, new, <<>>), n - 1)

\* the outer for loop: `for _ in 0..order`
RECURSIVE rules_apply_loop(_, _, _)
rules_apply_loop(rs, new, n) ==
    IF n <= 0 THEN new
    ELSE rules_apply_loop(rs, rewrite_pass(rs, new, <<>>), n - 1)

rules_apply_basic(rs, start, n) == rules_apply_loop(rs, start, n)

----------------------------------------------------------------------------
(* rules_minimize *)

\* ACTIONS.contains(rule)
actions_contains(c) == \E k \in 1..Len(ACTION_CHARS) : ACTION_CHARS[k] = c

RECURSIVE minimize_from_skip(_, _, _)
minimize_from_skip(s, k, out) ==
    IF k > Len(s) THEN out
    ELSE IF actions_contains(s[k])
         THEN minimize_from_skip(s, k + 1, Append(out, s[k]))
         ELSE IF k + 1 > Len(s) THEN out
         ELSE minimize_from_skip(s, k + 2, Append(out, s[k + 1]))

\* the for loop over rules.chars(), from character k on
RECURSIVE minimize_from(_, _, _)
minimize_from(s, k, out) ==
    IF k > Len(s) THEN out
    ELSE minimize_from(s, k + 1,
             IF actions_contains(s[k]) THEN Append(out, s[k]) ELSE out)

rules_minimize(s) == minimize_from(s, 1, <<>>)

----------------------------------------------------------------------------
(* cos and sin of a heading in degrees, in thousandths *)

CosTable ==
    <<1000, 996, 985, 966, 940, 906, 866, 819, 766, 707,
       643, 574, 500, 423, 342, 259, 174,  87,   0>>

Cos(deg) ==
    LET m == deg % 360
    IN  IF m <= 90       THEN CosTable[(m \div 5) + 1]
        ELSE IF m <= 180 THEN 0 - CosTable[((180 - m) \div 5) + 1]
        ELSE IF m <= 270 THEN 0 - CosTable[((m - 180) \div 5) + 1]
        ELSE                  CosTable[((360 - m) \div 5) + 1]

Sin(deg) == Cos(deg - 90)

Min(a, b) == IF a <= b THEN a ELSE b
Max(a, b) == IF a >= b THEN a ELSE b
Abs(a)    == IF a < 0 THEN 0 - a ELSE a

RmoveTo(dx, dy) == [op |-> "RmoveTo", dx |-> dx, dy |-> dy]
RlineTo(dx, dy) == [op |-> "RlineTo", dx |-> dx, dy |-> dy]

----------------------------------------------------------------------------
(* Exact fractions, for the pixel arithmetic of lsys_draw_basic.  Pixel    *)
(* coordinates are in hundredths of a pixel, the precision of the path     *)
(* text; a fraction is kept in lowest terms with a positive denominator.   *)

RECURSIVE Gcd(_, _)
Gcd(a, b) == IF b = 0 THEN a ELSE Gcd(b, a % b)

Rat(a, b) ==
    LET g == Gcd(Abs(a), b) IN [n |-> a \div g, d |-> b \div g]

Whole(a) == [n |-> a, d |-> 1]

RatAdd(a, b) ==
    LET g == Gcd(a.d, b.d)
    IN  Rat(a.n * (b.d \div g) + b.n * (a.d \div g), (a.d \div g) * b.d)

RatSub(a, b) == RatAdd(a, [n |-> 0 - b.n, d |-> b.d])

RatMul(a, b) ==
    LET g1 == Gcd(Abs(a.n), b.d)
        g2 == Gcd(Abs(b.n), a.d)
    IN  Rat((a.n \div g1) * (b.n \div g2), (a.d \div g2) * (b.d \div g1))

\* a / b, for b > 0
RatDiv(a, b) == RatMul(a, [n |-> b.d, d |-> b.n])

RatLe(a, b) == a.n * b.d <= b.n * a.d

RatLt(a, b) == a.n * b.d < b.n * a.d

RatMax(a, b) == IF RatLe(a, b) THEN b ELSE a

\* f64::min
RatMin(a, b) == IF RatLe(a, b) THEN a ELSE b

\* format!("{:07.2}"): the nearest multiple of 0.01 pixel
Format2(a) == (2 * a.n + a.d) \div (2 * a.d)

BOX_USAGE_FRACTION == [n |-> 9, d |-> 10]

\* target boxes handed to lsys_draw_basic: a square, one twice as wide as
\* tall, one taller than wide
TargetBoxes == {<<0, 0, 100, 100>>, <<40, 30, 240, 130>>, <<10, 20, 60, 170>>}

DrawChars == {"F", "f", "-", "|", "[", "]", "A"}

----------------------------------------------------------------------------
(* Initial states *)

DrawBlank ==
    /\ pbb = <<0, 0, 0, 0>>
    /\ sx = Whole(0) /\ sy = Whole(0) /\ pixel_per_step = Whole(0)
    /\ path_x = Whole(0) /\ path_y = Whole(0)
    /\ idact = 1
    /\ svg = <<>>

\* doc_new(); file is None, or Some with the data written to it
NoDoc == [indoc |-> FALSE, inpage |-> FALSE, page_no |-> 0, frag_no |-> 0,
          buf |-> <<>>, file |-> [some |-> FALSE, data |-> <<>>]]

SplitBlank ==
    /\ json = <<>> /\ iline = 1
    /\ chunk = <<>> /\ inchunk = FALSE

OuterBlank ==
    /\ chunks = <<>> /\ lsysv = <<>>
    /\ cur = 0 /\ iorder = 0
    /\ ds = NoDoc
    /\ trace = <<>>

DrawCatalog ==
    [start : StringsUpTo(DrawChars, MaxStart), angle : Angles,
     rules : {NoRules, TreeRules}, post_rules : PostRuleMaps]

Catalog ==
    [start : StringsUpTo(Chars, MaxStart), angle : Angles,
     rules : RuleMaps, post_rules : PostRuleMaps]
    \cup
    [start : {MixedStart}, angle : Angles,
     rules : {NoRules}, post_rules : PostRuleMaps]

TurtleBlank ==
    /\ i = 1 /\ d = 0
    /\ x = 0 /\ y = 0
    /\ x0 = 0 /\ y0 = 0 /\ x1 = 0 /\ y1 = 0
    /\ stack = <<>>

\* lsys_draw_basic is entered with a catalog entry and one of its orders
Init ==
    /\ lsys \in Catalog
    /\ order \in 0..MaxOrder
    /\ pc = "apply_basic"
    /\ basic = <<>> /\ post = <<>> /\ rules = <<>>
    /\ TurtleBlank
    /\ dacts = <<>>
    /\ DrawBlank /\ OuterBlank /\ SplitBlank

\* lsys_draw_basic is entered with a catalog entry, an order and a box
InitDraw ==
    /\ lsys \in DrawCatalog
    /\ order \in 0..MaxDrawOrder
    /\ pc = "apply_basic"
    /\ basic = <<>> /\ post = <<>> /\ rules = <<>>
    /\ TurtleBlank
    /\ dacts = <<>>
    /\ pbb \in TargetBoxes
    /\ sx = Whole(0) /\ sy = Whole(0) /\ pixel_per_step = Whole(0)
    /\ path_x = Whole(0) /\ path_y = Whole(0)
    /\ idact = 1
    /\ svg = <<>>
    /\ OuterBlank /\ SplitBlank

\* lsys_dacts_from_rules is entered with an arbitrary string
InitTurtle ==
    /\ lsys \in [start : {<<>>}, angle : Angles,
                 rules : {NoRules}, post_rules : {NoRules}]
    /\ order = 0
    /\ pc = "dacts"
    /\ basic = <<>> /\ post = <<>>
    /\ rules \in StringsUpTo(TurtleChars, MaxLen)
    /\ TurtleBlank
    /\ dacts = <<RmoveTo(0, 0)>>
    /\ DrawBlank /\ OuterBlank /\ SplitBlank

----------------------------------------------------------------------------
(* lsys_apply_rules *)

ApplyBasic ==
    /\ pc = "apply_basic"
    /\ basic' = rules_apply_basic(lsys.rules, lsys.start, order)
    /\ pc' = "apply_post"
    /\ UNCHANGED <<draw, outer, split>>
    /\ UNCHANGED <<lsys, order, post, rules, turtle>>

ApplyPostToOrder ==
    /\ pc = "apply_post"
    /\ post' = rules_apply_basic(lsys.post_rules, basic, order)
    /\ pc' = "minimize"
    /\ UNCHANGED <<draw, outer, split>>
    /\ UNCHANGED <<lsys, order, basic, rules, turtle>>

ApplyPost ==
    /\ pc = "apply_post"
    /\ post' = rules_apply_basic(lsys.post_rules, basic, 1)
    /\ pc' = "minimize"
    /\ UNCHANGED <<draw, outer, split>>
    /\ UNCHANGED <<lsys, order, basic, rules, turtle>>

MinimizeNoStart ==
    /\ pc = "minimize"
    /\ rules' = rules_minimize(post)
    /\ dacts' = <<>>
    /\ pc' = "dacts"
    /\ UNCHANGED <<draw, outer, split>>
    /\ UNCHANGED <<lsys, order, basic, post,
                   i, d, x, y, x0, y0, x1, y1, stack>>

\* the result of rules_minimize is handed to lsys_dacts_from_rules, which
\* sets up its locals and emits the starting RmoveTo
Minimize ==
    /\ pc = "minimize"
    /\ rules' = rules_minimize(post)
    /\ dacts' = <<RmoveTo(0, 0)>>
    /\ pc' = "dacts"
    /\ UNCHANGED <<draw, outer, split>>
    /\ UNCHANGED <<lsys, order, basic, post,
                   i, d, x, y, x0, y0, x1, y1, stack>>

----------------------------------------------------------------------------
(* lsys_dacts_from_rules: one action per branch of the loop body *)

Scanning(c) == pc = "dacts" /\ i <= Len(rules) /\ rules[i] = c

bbox_update_typo(nx, ny) ==
    /\ x0' = Min(x0, nx) /\ y0' = Min(y0, nx)
    /\ x1' = Max(x1, nx) /\ y1' = Max(y1, ny)

\* maintain bounding box, with the position after the action
bbox_update(nx, ny) ==
    /\ x0' = Min(x0, nx) /\ y0' = Min(y0, ny)
    /\ x1' = Max(x1, nx) /\ y1' = Max(y1, ny)

Forward ==
    /\ Scanning("F")
    /\ LET xt == Cos(d)
           yt == Sin(d)
       IN  /\ x' = x + xt
           /\ y' = y + yt
           /\ dacts' = Append(dacts, RlineTo(xt, yt))
           /\ bbox_update(x + xt, y + yt)
    /\ i' = i + 1
    /\ UNCHANGED <<draw, outer, split>>
    /\ UNCHANGED <<lsys, order, pc, basic, post, rules, d, stack>>

TurnLeft ==
    /\ Scanning("+")
    /\ d' = d + lsys.angle * ROTATION
    /\ bbox_update(x, y)
    /\ i' = i + 1
    /\ UNCHANGED <<draw, outer, split>>
    /\ UNCHANGED <<lsys, order, pc, basic, post, rules, x, y, stack, dacts>>

TurnRight ==
    /\ Scanning("-")
    /\ d' = d - lsys.angle * ROTATION
    /\ bbox_update(x, y)
    /\ i' = i + 1
    /\ UNCHANGED <<draw, outer, split>>
    /\ UNCHANGED <<lsys, order, pc, basic, post, rules, x, y, stack, dacts>>

Push ==
    /\ Scanning("[")
    /\ stack' = Append(stack, <<d, x, y>>)
    /\ bbox_update(x, y)
    /\ i' = i + 1
    /\ UNCHANGED <<draw, outer, split>>
    /\ UNCHANGED <<lsys, order, pc, basic, post, rules, d, x, y, dacts>>

PopPeek ==
    /\ Scanning("]")
    /\ stack # <<>>
    /\ LET top == stack[Len(stack)]
           xt  == top[2]
           yt  == top[3]
       IN  /\ d' = top[1]
           /\ dacts' = Append(dacts, RmoveTo(xt - x, yt - y))
           /\ x' = xt
           /\ y' = yt
           /\ bbox_update(xt, yt)
    /\ i' = i + 1
    /\ UNCHANGED <<draw, outer, split>>
    /\ UNCHANGED <<lsys, order, pc, basic, post, rules, stack>>

PopKeepsHeading ==
    /\ Scanning("]")
    /\ stack # <<>>
    /\ LET top == stack[Len(stack)]
           xt  == top[2]
           yt  == top[3]
       IN  /\ dacts' = Append(dacts, RmoveTo(xt - x, yt - y))
           /\ x' = xt
           /\ y' = yt
           /\ bbox_update(xt, yt)
    /\ stack' = SubSeq(stack, 1, Len(stack) - 1)
    /\ i' = i + 1
    /\ UNCHANGED <<draw, outer, split>>
    /\ UNCHANGED <<lsys, order, pc, basic, post, rules, d>>

Pop ==
    /\ Scanning("]")
    /\ stack # <<>>
    /\ LET top == stack[Len(stack)]
           xt  == top[2]
           yt  == top[3]
       IN  /\ d' = top[1]
           /\ dacts' = Append(dacts, RmoveTo(xt - x, yt - y))
           /\ x' = xt
           /\ y' = yt
           /\ bbox_update(xt, yt)
    /\ stack' = SubSeq(stack, 1, Len(stack) - 1)
    /\ i' = i + 1
    /\ UNCHANGED <<draw, outer, split>>
    /\ UNCHANGED <<lsys, order, pc, basic, post, rules>>

PopEmptySkipped ==
    /\ Scanning("]")
    /\ stack = <<>>
    /\ bbox_update(x, y)
    /\ i' = i + 1
    /\ UNCHANGED <<draw, outer, split>>
    /\ UNCHANGED <<lsys, order, pc, basic, post, rules, d, x, y, stack, dacts>>

\* stack.pop().unwrap() on an empty stack panics
PopEmpty ==
    /\ Scanning("]")
    /\ stack = <<>>
    /\ pc' = "panic_pop"
    /\ UNCHANGED <<draw, outer, split>>
    /\ UNCHANGED <<lsys, order, basic, post, rules, turtle>>

Reverse ==
    /\ Scanning("|")
    /\ d' = d + HALF_TURN
    /\ bbox_update(x, y)
    /\ i' = i + 1
    /\ UNCHANGED <<draw, outer, split>>
    /\ UNCHANGED <<lsys, order, pc, basic, post, rules, x, y, stack, dacts>>

\* the final else: panic!("Unimplemented action: '{rule}'")
Unimplemented ==
    /\ pc = "dacts" /\ i <= Len(rules)
    /\ rules[i] \notin {"F", "+", "-", "[", "]", "|"}
    /\ pc' = "panic_action"
    /\ UNCHANGED <<draw, outer, split>>
    /\ UNCHANGED <<lsys, order, basic, post, rules, turtle>>

DactsReturnNoAdjust ==
    /\ pc = "dacts" /\ i > Len(rules)
    /\ pc' = "done"
    /\ UNCHANGED <<draw, outer, split>>
    /\ UNCHANGED <<lsys, order, basic, post, rules, turtle>>

\* end of the loop: adjust bounding box so it can't have zero size, return
DactsReturn ==
    /\ pc = "dacts" /\ i > Len(rules)
    /\ IF Abs(x1 - x0) < MIN_SPAN
         THEN x0' = 0 - MIN_SPAN /\ x1' = MIN_SPAN
         ELSE UNCHANGED <<x0, x1>>
    /\ IF Abs(y1 - y0) < MIN_SPAN
         THEN y0' = 0 - MIN_SPAN /\ y1' = MIN_SPAN
         ELSE UNCHANGED <<y0, y1>>
    /\ pc' = "done"
    /\ UNCHANGED <<draw, outer, split>>
    /\ UNCHANGED <<lsys, order, basic, post, rules, i, d, x, y, stack, dacts>>

----------------------------------------------------------------------------
(* lsys_draw_basic, after lsys_dacts_from_rules has returned *)

scale_x_swapped(b) ==
    RatDiv(RatMul(Whole(b[3] - b[1]), BOX_USAGE_FRACTION), Whole(y1 - y0))

\* sx = px/ax: usable width of the box over the abstract width
scale_x(b) ==
    RatDiv(RatMul(Whole(b[3] - b[1]), BOX_USAGE_FRACTION), Whole(x1 - x0))

\* sy = py/ay
scale_y(b) ==
    RatDiv(RatMul(Whole(b[4] - b[2]), BOX_USAGE_FRACTION), Whole(y1 - y0))

pick_scale_largest(a, b) == RatMax(a, b)

\* pick the smallest scale factor
pick_scale(a, b) == RatMin(a, b)

\* starting position: center of the box minus the scaled center of the
\* abstract bounding box
start_position(lo, hi, alo, ahi, s) ==
    RatSub(Rat(lo + hi, 2), RatMul(Rat(alo + ahi, 2), s))

\* sizes, scale factors, starting position, path prelude
Fit ==
    /\ pc = "done"
    /\ sx' = scale_x(pbb)
    /\ sy' = scale_y(pbb)
    /\ pixel_per_step' = pick_scale(sx', sy')
    /\ path_x' = start_position(pbb[1], pbb[3], x0, x1, pixel_per_step')
    /\ path_y' = start_position(pbb[2], pbb[4], y0, y1, pixel_per_step')
    /\ idact' = 1
    /\ svg' = <<>>
    /\ pc' = "path"
    /\ UNCHANGED <<lsys, order, basic, post, rules, turtle, pbb, outer, split>>

EmitStepUnscaled(kind, letter) ==
    /\ pc = "path" /\ idact <= Len(dacts)
    /\ dacts[idact].op = kind
    /\ path_x' = RatAdd(path_x, Whole(dacts[idact].dx))
    /\ path_y' = RatAdd(path_y, Whole(dacts[idact].dy))
    /\ svg' = Append(svg, [op |-> letter,
                           x |-> Format2(path_x'), y |-> Format2(path_y')])
    /\ idact' = idact + 1
    /\ UNCHANGED <<lsys, order, pc, basic, post, rules, turtle,
                   pbb, sx, sy, pixel_per_step, outer, split>>

EmitStep(kind, letter) ==
    /\ pc = "path" /\ idact <= Len(dacts)
    /\ dacts[idact].op = kind
    /\ path_x' = RatAdd(path_x, RatMul(pixel_per_step, Whole(dacts[idact].dx)))
    /\ path_y' = RatAdd(path_y, RatMul(pixel_per_step, Whole(dacts[idact].dy)))
    /\ svg' = Append(svg, [op |-> letter,
                           x |-> Format2(path_x'), y |-> Format2(path_y')])
    /\ idact' = idact + 1
    /\ UNCHANGED <<lsys, order, pc, basic, post, rules, turtle,
                   pbb, sx, sy, pixel_per_step, outer, split>>

\* DAct::RmoveTo(xs,ys)
EmitMove == EmitStep("RmoveTo", "M")

\* DAct::RlineTo(xs,ys)
EmitLine == EmitStep("RlineTo", "L")

\* end d attribute of path, return svg
PathReturn ==
    /\ pc = "path" /\ idact > Len(dacts)
    /\ pc' = "drawn"
    /\ UNCHANGED <<lsys, order, basic, post, rules, turtle, draw, outer, split>>

----------------------------------------------------------------------------
(* doc(): the assertions and the effect of every DocAct.  The buffer and   *)
(* the file hold the pieces of text in the order they were appended.       *)

OpenTitle(title)   == [act |-> "DocOpenPathTitle", arg |-> title]
StartComment(c)    == [act |-> "PageStartComment", arg |-> c]
AddFragment(frag)  == [act |-> "PageAddFragment", arg |-> frag]
EndPage            == [act |-> "PageEnd", arg |-> ""]
CloseDoc           == [act |-> "DocClose", arg |-> ""]

DocOpenPathTitle_ok(s) ==
    /\ s.indoc = FALSE
    /\ s.inpage = FALSE
    /\ s.page_no = 0
    /\ s.frag_no = 0
    /\ Len(s.buf) = 0
    /\ ~s.file.some

DocOpenPathTitle(s, title) ==
    [s EXCEPT !.file  = [some |-> TRUE, data |-> <<>>],
              !.buf   = Append(@, <<"html_doc_head", title>>),
              !.indoc = TRUE]

PageStartComment_ok_no_indoc(s) ==
    /\ s.inpage = FALSE

PageStartComment_ok(s) ==
    /\ s.indoc = TRUE
    /\ s.inpage = FALSE

PageStartComment(s, comment) ==
    LET sep == IF s.page_no > 0 THEN <<<<"html_page_sep">>>> ELSE <<>>
    IN  [s EXCEPT !.page_no = @ + 1,
                  !.frag_no = 0,
                  !.buf     = @ \o sep
                                \o <<<<"svg_page_head", s.page_no + 1, comment>>>>,
                  !.inpage  = TRUE]

PageAddFragment_ok(s) == s.inpage = TRUE

PageAddFragment(s, frag) ==
    [s EXCEPT !.frag_no = @ + 1,
              !.buf     = @ \o <<<<"svg_frag_head", s.page_no, s.frag_no + 1>>,
                                 <<"frag", frag>>>>]

PageEnd_ok_no_frag(s) ==
    /\ s.indoc = TRUE
    /\ s.inpage = TRUE
    /\ s.file.some

PageEnd_ok(s) ==
    /\ s.indoc = TRUE
    /\ s.inpage = TRUE
    /\ s.frag_no > 0
    /\ s.file.some

PageEndNoClear(s) ==
    LET out == Append(s.buf, <<"svg_page_foot", s.page_no>>)
    IN  [s EXCEPT !.inpage = FALSE,
                  !.buf    = out,
                  !.file   = [some |-> TRUE, data |-> s.file.data \o out]]

PageEnd(s) ==
    LET out == Append(s.buf, <<"svg_page_foot", s.page_no>>)
    IN  [s EXCEPT !.inpage = FALSE,
                  !.buf    = <<>>,
                  !.file   = [some |-> TRUE, data |-> s.file.data \o out]]

DocClose_ok(s) ==
    /\ s.indoc = TRUE
    /\ s.inpage = FALSE
    /\ s.page_no > 0
    /\ Len(s.buf) = 0
    /\ s.file.some

DocCloseKeepsIndoc(s) ==
    LET out == Append(s.buf, <<"html_doc_foot">>)
    IN  [s EXCEPT !.buf     = out,
                  !.file    = [some |-> TRUE, data |-> s.file.data \o out],
                  !.frag_no = 0]

\* leaves the state with a non-empty buffer and indoc false
DocClose(s) ==
    LET out == Append(s.buf, <<"html_doc_foot">>)
    IN  [s EXCEPT !.buf     = out,
                  !.file    = [some |-> TRUE, data |-> s.file.data \o out],
                  !.indoc   = FALSE,
                  !.frag_no = 0]

doc_ok(s, a) ==
    CASE a.act = "DocOpenPathTitle" -> DocOpenPathTitle_ok(s)
      [] a.act = "PageStartComment" -> PageStartComment_ok(s)
      [] a.act = "PageAddFragment"  -> PageAddFragment_ok(s)
      [] a.act = "PageEnd"          -> PageEnd_ok(s)
      [] a.act = "DocClose"         -> DocClose_ok(s)

doc(s, a) ==
    CASE a.act = "DocOpenPathTitle" -> DocOpenPathTitle(s, a.arg)
      [] a.act = "PageStartComment" -> PageStartComment(s, a.arg)
      [] a.act = "PageAddFragment"  -> PageAddFragment(s, a.arg)
      [] a.act = "PageEnd"          -> PageEnd(s)
      [] a.act = "DocClose"         -> DocClose(s)

\* one call of doc(): a failed assertion panics before anything is changed
DocCall(a, next) ==
    /\ trace' = Append(trace, a)
    /\ IF doc_ok(ds, a)
         THEN ds' = doc(ds, a) /\ pc' = next
         ELSE ds' = ds /\ pc' = "panic_assert"

\* a caller that hands any DocAct to doc() at any time
Driving == pc = "doc" /\ Len(trace) < MaxActs

CallDocOpenPathTitle ==
    /\ Driving
    /\ DocCall(OpenTitle("title"), "doc")
    /\ UNCHANGED <<lsys, order, basic, post, rules, turtle, draw, split,
                   chunks, lsysv, cur, iorder>>

CallPageStartComment ==
    /\ Driving
    /\ DocCall(StartComment("comment"), "doc")
    /\ UNCHANGED <<lsys, order, basic, post, rules, turtle, draw, split,
                   chunks, lsysv, cur, iorder>>

CallPageAddFragment ==
    /\ Driving
    /\ DocCall(AddFragment("svg"), "doc")
    /\ UNCHANGED <<lsys, order, basic, post, rules, turtle, draw, split,
                   chunks, lsysv, cur, iorder>>

CallPageEnd ==
    /\ Driving
    /\ DocCall(EndPage, "doc")
    /\ UNCHANGED <<lsys, order, basic, post, rules, turtle, draw, split,
                   chunks, lsysv, cur, iorder>>

CallDocClose ==
    /\ Driving
    /\ DocCall(CloseDoc, "doc")
    /\ UNCHANGED <<lsys, order, basic, post, rules, turtle, draw, split,
                   chunks, lsysv, cur, iorder>>

\* a fresh DocState from doc_new()
InitDoc ==
    /\ lsys = [start |-> <<>>, angle |-> 90,
               rules |-> NoRules, post_rules |-> NoRules]
    /\ order = 0
    /\ pc = "doc"
    /\ basic = <<>> /\ post = <<>> /\ rules = <<>>
    /\ TurtleBlank
    /\ dacts = <<>>
    /\ DrawBlank /\ OuterBlank /\ SplitBlank

NextDoc ==
    \/ CallDocOpenPathTitle \/ CallPageStartComment \/ CallPageAddFragment
    \/ CallPageEnd \/ CallDocClose

SpecDoc == InitDoc /\ [][NextDoc]_vars

----------------------------------------------------------------------------
(* layout_boxes_make: the box edges are fractions of the page size; the    *)
(* fractions are in hundredths and the page size in pixels, so the edges   *)
(* are in hundredths of a pixel.                                           *)

PIXEL_PER_INCH == 96
PAGE_WIDTH  == (85 * PIXEL_PER_INCH) \div 10
PAGE_HEIGHT == 11 * PIXEL_PER_INCH

layout_boxes_make ==
    LET xf == <<5, 35, 35, 65, 95>>
        yf == <<3, 14, 20, 42, 97>>
        bx == [k \in 1..5 |-> xf[k] * PAGE_WIDTH]
        by == [k \in 1..5 |-> yf[k] * PAGE_HEIGHT]
    IN  [main   |-> <<bx[1], by[4], bx[5], by[5]>>,
         left   |-> <<bx[1], by[3], bx[2], by[4]>>,
         center |-> <<bx[2], by[3], bx[4], by[4]>>,
         right  |-> <<bx[4], by[3], bx[5], by[4]>>,
         a      |-> <<bx[1], by[2], bx[3], by[3]>>,
         b      |-> <<bx[3], by[2], bx[5], by[3]>>,
         top    |-> <<bx[1], by[1], bx[5], by[2]>>]

\* the four calls of lsys_draw_order_in_box in lsys_draw_page
SlotBox == <<"left", "center", "right", "main">>

----------------------------------------------------------------------------
(* lsys_from_json_chunks: a chunk is what serde_json::from_str makes of    *)
(* it, an error or an LSys record.                                         *)

RECURSIVE chunks_loop_stop(_, _, _)
chunks_loop_stop(cs, k, out) ==
    IF k > Len(cs) THEN out
    ELSE IF ~cs[k].ok THEN out
    ELSE LET r == cs[k].lsys
             l == IF Len(r.order) = 0
                    THEN [r EXCEPT !.order = <<1, 2, 3, 4>>] ELSE r
         IN  chunks_loop_stop(cs, k + 1, Append(out, l))

RECURSIVE chunks_loop(_, _, _)
chunks_loop(cs, k, out) ==
    IF k > Len(cs) THEN out
    ELSE IF ~cs[k].ok THEN chunks_loop(cs, k + 1, out)
    ELSE LET r == cs[k].lsys
             l == IF Len(r.order) = 0
                    THEN [r EXCEPT !.order = <<1, 2, 3, 4>>] ELSE r
         IN  chunks_loop(cs, k + 1, Append(out, l))

lsys_from_json_chunks(cs) == chunks_loop(cs, 1, <<>>)

\* the examples: a curve that leaves its orders to the loader, a branching
\* curve with its own orders, a curve that lists one order only, a curve
\* with an unmatched ']', a curve that uses 'f', and a chunk that is not
\* an LSys
Curve(t, st, ru, ord) ==
    [ok |-> TRUE,
     lsys |-> [title |-> t, start |-> st, angle |-> 90, rules |-> ru,
               post_rules |-> NoRules, order |-> ord]]

ExampleChunks ==
    {Curve("turns", <<"F", "-", "|", "F">>, NoRules, <<>>),
     Curve("tree", <<"A">>, TreeRules, <<0, 1, 1, 2>>),
     Curve("one order", <<"F">>, NoRules, <<1>>),
     Curve("unmatched", <<"F", "]">>, NoRules, <<0, 1, 2, 3>>),
     Curve("small f", <<"F", "f">>, NoRules, <<0, 1, 2, 3>>),
     [ok |-> FALSE]}

----------------------------------------------------------------------------
(* main, lsys_draw_page, lsys_draw_order_in_box *)

Load ==
    /\ pc = "load"
    /\ lsysv' = lsys_from_json_chunks(chunks)
    /\ pc' = "open"
    /\ UNCHANGED <<lsys, order, basic, post, rules, turtle, draw, split,
                   chunks, cur, iorder, ds, trace>>

DocOpen ==
    /\ pc = "open"
    /\ DocCall(OpenTitle("Lindenmayer System Examples"), "for_lsys")
    /\ UNCHANGED <<lsys, order, basic, post, rules, turtle, draw, split,
                   chunks, lsysv, cur, iorder>>

\* for lsys in lsysv: the next record, and its page is started
PageStart ==
    /\ pc = "for_lsys" /\ cur < Len(lsysv)
    /\ cur' = cur + 1
    /\ lsys' = lsysv[cur + 1]
    /\ DocCall(StartComment(lsys'.title), "layout")
    /\ UNCHANGED <<order, basic, post, rules, turtle, draw, split,
                   chunks, lsysv, iorder>>

LayoutFragment ==
    /\ pc = "layout"
    /\ DocCall(AddFragment("layout boxes"), "slot")
    /\ iorder' = 0
    /\ UNCHANGED <<lsys, order, basic, post, rules, turtle, draw, split,
                   chunks, lsysv, cur>>

\* lsys.order[iorder] is in range: lsys_draw_basic is entered
DrawOrderInBox ==
    /\ pc = "slot" /\ iorder < Len(lsys.order)
    /\ order' = lsys.order[iorder + 1]
    /\ pbb' = layout_boxes_make[SlotBox[iorder + 1]]
    /\ pc' = "apply_basic"
    /\ basic' = <<>> /\ post' = <<>> /\ rules' = <<>>
    /\ i' = 1 /\ d' = 0
    /\ x' = 0 /\ y' = 0
    /\ x0' = 0 /\ y0' = 0 /\ x1' = 0 /\ y1' = 0
    /\ stack' = <<>>
    /\ dacts' = <<>>
    /\ sx' = Whole(0) /\ sy' = Whole(0) /\ pixel_per_step' = Whole(0)
    /\ path_x' = Whole(0) /\ path_y' = Whole(0)
    /\ idact' = 1
    /\ svg' = <<>>
    /\ UNCHANGED <<lsys, outer, split>>

OrderIndexClamped ==
    /\ pc = "slot" /\ iorder >= Len(lsys.order)
    /\ order' = lsys.order[Len(lsys.order)]
    /\ pbb' = layout_boxes_make[SlotBox[iorder + 1]]
    /\ pc' = "apply_basic"
    /\ basic' = <<>> /\ post' = <<>> /\ rules' = <<>>
    /\ i' = 1 /\ d' = 0
    /\ x' = 0 /\ y' = 0
    /\ x0' = 0 /\ y0' = 0 /\ x1' = 0 /\ y1' = 0
    /\ stack' = <<>>
    /\ dacts' = <<>>
    /\ sx' = Whole(0) /\ sy' = Whole(0) /\ pixel_per_step' = Whole(0)
    /\ path_x' = Whole(0) /\ path_y' = Whole(0)
    /\ idact' = 1
    /\ svg' = <<>>
    /\ UNCHANGED <<lsys, outer, split>>

\* lsys.order[iorder] is out of range: the index panics while the
\* arguments of lsys_draw_basic are evaluated
OrderIndexPanic ==
    /\ pc = "slot" /\ iorder >= Len(lsys.order)
    /\ pc' = "panic_index"
    /\ UNCHANGED <<lsys, order, basic, post, rules, turtle, draw, outer, split>>

\* lsys_draw_basic has returned: its fragment goes to the page
AddOrderFragment ==
    /\ pc = "drawn"
    /\ DocCall(AddFragment([ibox |-> SlotBox[iorder + 1],
                            iorder |-> iorder, path |-> svg]),
               IF iorder = 3 THEN "text" ELSE "slot")
    /\ iorder' = iorder + 1
    /\ UNCHANGED <<lsys, order, basic, post, rules, turtle, draw, split,
                   chunks, lsysv, cur>>

\* title, rules and link go to the page as one fragment
TextFragment ==
    /\ pc = "text"
    /\ DocCall(AddFragment("title and rules"), "page_end")
    /\ UNCHANGED <<lsys, order, basic, post, rules, turtle, draw, split,
                   chunks, lsysv, cur, iorder>>

PageEndCall ==
    /\ pc = "page_end"
    /\ DocCall(EndPage, "for_lsys")
    /\ UNCHANGED <<lsys, order, basic, post, rules, turtle, draw, split,
                   chunks, lsysv, cur, iorder>>

DocCloseCall ==
    /\ pc = "for_lsys" /\ cur = Len(lsysv)
    /\ DocCall(CloseDoc, "exit")
    /\ UNCHANGED <<lsys, order, basic, post, rules, turtle, draw, split,
                   chunks, lsysv, cur, iorder>>

\* main is entered with the chunks of the examples file
InitMain ==
    /\ lsys = [start |-> <<>>, angle |-> 90,
               rules |-> NoRules, post_rules |-> NoRules]
    /\ order = 0
    /\ pc = "load"
    /\ basic = <<>> /\ post = <<>> /\ rules = <<>>
    /\ TurtleBlank
    /\ dacts = <<>>
    /\ DrawBlank
    /\ chunks \in StringsUpTo(ExampleChunks, MaxCurves)
    /\ lsysv = <<>>
    /\ cur = 0 /\ iorder = 0
    /\ ds = NoDoc
    /\ trace = <<>>
    /\ SplitBlank

NextMain ==
    \/ Load \/ DocOpen \/ PageStart \/ LayoutFragment
    \/ DrawOrderInBox \/ OrderIndexPanic
    \/ ApplyBasic \/ ApplyPost \/ Minimize
    \/ Forward \/ TurnLeft \/ TurnRight \/ Push \/ Pop \/ PopEmpty
    \/ Reverse \/ Unimplemented \/ DactsReturn
    \/ Fit \/ EmitMove \/ EmitLine \/ PathReturn
    \/ AddOrderFragment \/ TextFragment \/ PageEndCall \/ DocCloseCall

SpecMain == InitMain /\ [][NextMain]_vars

----------------------------------------------------------------------------
(* json_to_chunks: the text is the sequence of its lines, a line is the    *)
(* sequence of its characters, a chunk is the sequence of the lines        *)
(* appended to it.                                                         *)

\* str::trim_end
RECURSIVE trim_end(_)
trim_end(l) ==
    IF l # <<>> /\ l[Len(l)] = " "
      THEN trim_end(SubSeq(l, 1, Len(l) - 1))
      ELSE l

\* a brace, a brace followed by white space, a closing brace, an indented
\* closing brace, and a line of something else
JsonLines ==
    {<<"{">>, <<"{", " ">>, <<"}">>, <<" ", "}">>, <<"x">>}

MoreLines == pc = "lines" /\ iline <= Len(json)

ChunkBeginKeeps ==
    /\ MoreLines
    /\ trim_end(json[iline]) = <<"{">>
    /\ inchunk' = TRUE
    /\ chunk' = Append(chunk, json[iline])
    /\ iline' = iline + 1
    /\ UNCHANGED <<lsys, order, pc, basic, post, rules, turtle, draw,
                   outer, json>>

\* ("{",_): begin chunk, or discard false chunk
ChunkBegin ==
    /\ MoreLines
    /\ trim_end(json[iline]) = <<"{">>
    /\ inchunk' = TRUE
    /\ chunk' = <<json[iline]>>
    /\ iline' = iline + 1
    /\ UNCHANGED <<lsys, order, pc, basic, post, rules, turtle, draw,
                   outer, json>>

\* ("}",true): end chunk
ChunkEnd ==
    /\ MoreLines
    /\ trim_end(json[iline]) = <<"}">> /\ inchunk
    /\ inchunk' = FALSE
    /\ chunk' = Append(chunk, json[iline])
    /\ chunks' = Append(chunks, chunk')
    /\ iline' = iline + 1
    /\ UNCHANGED <<lsys, order, pc, basic, post, rules, turtle, draw,
                   lsysv, cur, iorder, ds, trace, json>>

\* (_,true): accumulate lines in chunk
ChunkAccumulate ==
    /\ MoreLines
    /\ trim_end(json[iline]) \notin {<<"{">>, <<"}">>}
    /\ inchunk
    /\ chunk' = Append(chunk, json[iline])
    /\ iline' = iline + 1
    /\ UNCHANGED <<lsys, order, pc, basic, post, rules, turtle, draw,
                   outer, json, inchunk>>

\* (_,_): ignore the rest
ChunkIgnore ==
    /\ MoreLines
    /\ trim_end(json[iline]) # <<"{">>
    /\ ~inchunk
    /\ iline' = iline + 1
    /\ UNCHANGED <<lsys, order, pc, basic, post, rules, turtle, draw,
                   outer, json, chunk, inchunk>>

ChunksReturn ==
    /\ pc = "lines" /\ iline > Len(json)
    /\ pc' = "chunked"
    /\ UNCHANGED <<lsys, order, basic, post, rules, turtle, draw,
                   outer, split>>

\* json_to_chunks is entered with any text
InitChunks ==
    /\ lsys = [start |-> <<>>, angle |-> 90,
               rules |-> NoRules, post_rules |-> NoRules]
    /\ order = 0
    /\ pc = "lines"
    /\ basic = <<>> /\ post = <<>> /\ rules = <<>>
    /\ TurtleBlank
    /\ dacts = <<>>
    /\ DrawBlank /\ OuterBlank
    /\ json \in StringsUpTo(JsonLines, MaxLines)
    /\ iline = 1
    /\ chunk = <<>> /\ inchunk = FALSE

NextChunks ==
    \/ ChunkBegin \/ ChunkEnd \/ ChunkAccumulate \/ ChunkIgnore
    \/ ChunksReturn

SpecChunks == InitChunks /\ [][NextChunks]_vars

\* doc() under both of its callers, any caller and main
InitDocUse == InitDoc \/ InitMain

NextDocUse == NextDoc \/ NextMain

SpecDocUse == InitDocUse /\ [][NextDocUse]_vars

NextTurtle ==
    \/ Forward \/ TurnLeft \/ TurnRight \/ Push \/ Pop \/ PopEmpty
    \/ Reverse \/ Unimplemented \/ DactsReturn

Next ==
    \/ ApplyBasic \/ ApplyPost \/ Minimize
    \/ Forward \/ TurnLeft \/ TurnRight \/ Push \/ Pop \/ PopEmpty
    \/ Reverse \/ Unimplemented \/ DactsReturn

NextDraw ==
    \/ ApplyBasic \/ ApplyPost \/ Minimize
    \/ Forward \/ TurnLeft \/ TurnRight \/ Push \/ Pop \/ PopEmpty
    \/ Reverse \/ Unimplemented \/ DactsReturn
    \/ Fit \/ EmitMove \/ EmitLine \/ PathReturn

Spec == Init /\ [][Next]_vars

SpecDraw == InitDraw /\ [][NextDraw]_vars

SpecTurtle == InitTurtle /\ [][NextTurtle]_vars

----------------------------------------------------------------------------
(* Parallel rewriting and filtering, stated independently of the loops *)

Replacement(rs, c) == IF c \in DOMAIN rs THEN rs[c] ELSE <<c>>

RECURSIVE Flatten(_)
Flatten(ss) == IF ss = <<>> THEN <<>> ELSE Head(ss) \o Flatten(Tail(ss))

\* one generation: every character replaced at once
Generation(rs, s) == Flatten([k \in 1..Len(s) |-> Replacement(rs, s[k])])

RECURSIVE Generations(_, _, _)
Generations(rs, s, n) ==
    IF n = 0 THEN s ELSE Generation(rs, Generations(rs, s, n - 1))

ActionAlphabet == {"F", "f", "+", "-", "[", "]", "|"}

IsActionChar(c) == c \in ActionAlphabet

ActionSubsequence(s) == SelectSeq(s, IsActionChar)

FibWords ==
    << <<"A">>,
       <<"A", "B">>,
       <<"A", "B", "A">>,
       <<"A", "B", "A", "A", "B">>,
       <<"A", "B", "A", "A", "B", "A", "B", "A">> >>

Expanded  == pc # "apply_basic"
Minimized == pc \notin {"apply_basic", "apply_post", "minimize"}

\* C1: rules_apply_basic(rules, start, n) is n generations of parallel
\* rewriting of start (replacement text is not rewritten again within a
\* generation); {A->AB, B->A} from "A" gives the Fibonacci words for
\* orders 0..4.
C1_ParallelRewriting ==
    Expanded =>
        /\ basic = Generations(lsys.rules, lsys.start, order)
        /\ (lsys.rules = FibRules /\ lsys.start = <<"A">> /\ order <= 4)
               => basic = FibWords[order + 1]

C1_Witness ==
    /\ pc = "apply_post"
    /\ lsys.rules = FibRules /\ lsys.start = <<"A">> /\ order = 4
    /\ basic = <<"A", "B", "A", "A", "B", "A", "B", "A">>

\* C2: with order 0 rules_apply_basic returns start unchanged, whatever
\* the rules are.
C2_OrderZeroIdentity ==
    (Expanded /\ order = 0) => basic = lsys.start

C2_Witness ==
    /\ pc = "apply_post" /\ order = 0
    /\ lsys.rules = FibRules /\ lsys.start = <<"A", "B">>
    /\ basic = <<"A", "B">>

\* C3: rules_minimize(s) is exactly the subsequence of s made of the
\* characters of the action alphabet {F,f,+,-,[,],|}, in order.
C3_MinimizeExact ==
    Minimized =>
        /\ rules = ActionSubsequence(post)
        /\ (\A k \in 1..Len(post) : post[k] \notin ActionAlphabet)
               => rules = <<>>
        /\ (\A k \in 1..Len(post) : post[k] \in ActionAlphabet)
               => rules = post

C3_Witness ==
    /\ pc = "dacts" /\ i = 1
    /\ post = MixedStart
    /\ rules = <<"F", "f", "+", "-", "[", "]", "|">>

\* C4: rules_minimize is idempotent: minimizing its result changes nothing.
C4_MinimizeIdempotent ==
    Minimized => rules_minimize(rules) = rules

C4_Witness ==
    /\ pc = "dacts" /\ i = 1
    /\ Len(rules) > 0 /\ Len(rules) < Len(post)

\* C5: lsys_apply_rules expands start with rules to the order, then applies
\* one generation of post_rules to that result, then minimizes; each stage
\* runs once and in this order.
C5_StageResults ==
    /\ Expanded => basic = Generations(lsys.rules, lsys.start, order)
    /\ pc \notin {"apply_basic", "apply_post"}
           => post = Generation(lsys.post_rules, basic)
    /\ Minimized => rules = ActionSubsequence(post)

C5_StageOrder ==
    /\ pc = "apply_basic" => pc' = "apply_post" /\ UNCHANGED <<post, rules>>
    /\ pc = "apply_post"  => pc' = "minimize" /\ UNCHANGED <<basic, rules>>
    /\ pc = "minimize"    => pc' = "dacts" /\ UNCHANGED <<basic, post>>
    /\ Minimized          => Minimized' /\ UNCHANGED <<basic, post, rules>>

C5_Pipeline == []C5_StageResults /\ [][C5_StageOrder]_vars

C5_Witness ==
    /\ pc = "dacts" /\ i = 1
    /\ lsys.start = <<"A">> /\ lsys.rules = FibRules
    /\ lsys.post_rules = DrawRules /\ order = 2
    /\ basic = <<"A", "B", "A">>
    /\ post = <<"F", "A", "-", "F", "F", "A">>
    /\ rules = <<"F", "-", "F", "F">>

----------------------------------------------------------------------------
(* Turtle interpretation *)

\* number of '[' minus number of ']' among the first k characters of s
RECURSIVE BracketDepth(_, _)
BracketDepth(s, k) ==
    IF k = 0 THEN 0
    ELSE BracketDepth(s, k - 1)
             + (IF s[k] = "[" THEN 1 ELSE IF s[k] = "]" THEN -1 ELSE 0)

Balanced(s) ==
    /\ \A k \in 0..Len(s) : BracketDepth(s, k) >= 0
    /\ BracketDepth(s, Len(s)) = 0

\* position reached after the first k drawing actions
RECURSIVE PosX(_)
PosX(k) == IF k = 0 THEN 0 ELSE PosX(k - 1) + dacts[k].dx

RECURSIVE PosY(_)
PosY(k) == IF k = 0 THEN 0 ELSE PosY(k - 1) + dacts[k].dy

\* number of characters among the first k of s that emit a drawing action
RECURSIVE Emitting(_, _)
Emitting(s, k) ==
    IF k = 0 THEN 0
    ELSE Emitting(s, k - 1) + (IF s[k] \in {"F", "]"} THEN 1 ELSE 0)

\* C6: on a string with balanced brackets the interpreter never pops an
\* empty stack, and the stack is empty when the scan has ended.
C6_BalancedStack ==
    Balanced(rules) =>
        /\ pc # "panic_pop"
        /\ pc = "done" => stack = <<>>

C6_Witness ==
    /\ pc = "done" /\ Balanced(rules)
    /\ \E k \in 1..(Len(rules) - 1) : rules[k] = "[" /\ rules[k + 1] = "["

\* C7: a ']' met with an empty stack stops the interpretation at exactly
\* that character, the first unmatched ']': it is not skipped, nothing
\* after it is processed and nothing is returned.
C7_AtFirstUnmatched ==
    pc = "panic_pop" =>
        /\ rules[i] = "]"
        /\ \A k \in 0..(i - 1) : BracketDepth(rules, k) >= 0
        /\ BracketDepth(rules, i - 1) = 0
        /\ Len(dacts) = 1 + Emitting(rules, i - 1)

C7_Step ==
    /\ (Scanning("]") /\ stack = <<>>)
           => pc' = "panic_pop" /\ UNCHANGED <<rules, turtle>>
    /\ pc # "panic_pop"

C7_UnmatchedPopFails == []C7_AtFirstUnmatched /\ [][C7_Step]_vars

C7_Witness ==
    /\ pc = "panic_pop"
    /\ 1 < i /\ i < Len(rules)
    /\ Len(dacts) > 1

\* C8: the interpreter never takes the 'Unimplemented action' branch on
\* the output of rules_minimize.
C8_NoUnimplementedAfterMinimize == pc # "panic_action"

\* C9: 'f' moves the turtle one step forward in the current heading,
\* updating position and bounding box as 'F' does, and emits no command.
C9_MoveStep ==
    Scanning("f") =>
        /\ pc' = "dacts" /\ i' = i + 1
        /\ x' = x + Cos(d) /\ y' = y + Sin(d)
        /\ x0' = Min(x0, x') /\ y0' = Min(y0, y')
        /\ x1' = Max(x1, x') /\ y1' = Max(y1, y')
        /\ UNCHANGED <<d, stack, dacts>>

C9_MoveWithoutDrawing == [][C9_MoveStep]_vars

\* C10: every position the turtle visited (the origin, the end of every
\* 'F', every position restored by ']') lies within the closed bounding
\* box that is returned, after the degeneracy correction.
C10_VisitedInBBox ==
    pc = "done" =>
        /\ \A k \in 0..Len(dacts) :
               /\ x0 <= PosX(k) /\ PosX(k) <= x1
               /\ y0 <= PosY(k) /\ PosY(k) <= y1
        /\ PosX(Len(dacts)) = x /\ PosY(Len(dacts)) = y

C10_Witness ==
    /\ pc = "done" /\ lsys.angle = 5
    /\ y0 = 0 - MIN_SPAN /\ y1 = MIN_SPAN
    /\ \E k \in 1..Len(dacts) : dacts[k].op = "RlineTo" /\ dacts[k].dy # 0
    /\ \E k \in 2..Len(dacts) : dacts[k].op = "RmoveTo" /\ dacts[k].dy # 0

\* C11: the bounding box returned by the interpreter has strictly positive
\* width and height, each at least the 0.1 threshold, for every action
\* string (the empty one and those without 'F' included).
C11_PositiveBBox ==
    pc = "done" =>
        /\ x1 - x0 >= MIN_SPAN /\ x1 - x0 > 0
        /\ y1 - y0 >= MIN_SPAN /\ y1 - y0 > 0

C11_Witness ==
    /\ pc = "done" /\ rules = <<"+", "-">>
    /\ x0 = 0 - MIN_SPAN /\ x1 = MIN_SPAN
    /\ y0 = 0 - MIN_SPAN /\ y1 = MIN_SPAN

\* C12: on an axis whose extent is below the threshold the correction
\* widens the box about its own center: the midpoint of the corrected
\* interval is the midpoint of the uncorrected one, for x and for y.
C12_ReturnStep ==
    (pc = "dacts" /\ pc' = "done") =>
        /\ x0' + x1' = x0 + x1
        /\ y0' + y1' = y0 + y1

C12_CenterPreserved == [][C12_ReturnStep]_vars

\* C15: the command list of the interpreter always starts with a relative
\* move of (0,0), and that is the only command before the first action is
\* processed.
C15_StartsWithMove ==
    Minimized =>
        /\ Len(dacts) >= 1
        /\ dacts[1] = [op |-> "RmoveTo", dx |-> 0, dy |-> 0]
        /\ i = 1 => Len(dacts) = 1

C15_Witness ==
    /\ pc = "done" /\ rules = <<>>
    /\ dacts = <<[op |-> "RmoveTo", dx |-> 0, dy |-> 0]>>

----------------------------------------------------------------------------
(* Fitting the drawing into the target box *)

Fitted == pc \in {"path", "drawn"}

\* C13: every absolute coordinate pair that lsys_draw_basic emits, for
\* moves and lines alike, lies inside the target box (usage fraction 0.9).
C13_PathInsideBox ==
    Fitted =>
        /\ \A k \in 1..Len(svg) :
               /\ pbb[1] <= svg[k].x /\ svg[k].x <= pbb[3]
               /\ pbb[2] <= svg[k].y /\ svg[k].y <= pbb[4]
        /\ idact > 1 =>
               /\ RatLe(Whole(pbb[1]), path_x) /\ RatLe(path_x, Whole(pbb[3]))
               /\ RatLe(Whole(pbb[2]), path_y) /\ RatLe(path_y, Whole(pbb[4]))

C13_Witness ==
    /\ pc = "drawn" /\ lsys.angle = 5
    /\ pbb = <<40, 30, 240, 130>>
    /\ \E k \in 1..Len(svg) : svg[k].op = "L"
    /\ \E k \in 2..Len(svg) : svg[k].op = "M"

\* C14: the scale is min(sx, sy) with sx = usable width / abstract width
\* and sy = usable height / abstract height, finite and positive; with a
\* square abstract box, scale = sx = sy for a square target and
\* scale = sy < sx for a target twice as wide as tall.
C14_ScaleIsMin ==
    Fitted =>
        LET pw == pbb[3] - pbb[1]
            ph == pbb[4] - pbb[2]
            aw == x1 - x0
            ah == y1 - y0
        IN  /\ sx.n * (10 * aw) = 9 * pw * sx.d
            /\ sy.n * (10 * ah) = 9 * ph * sy.d
            /\ pixel_per_step \in {sx, sy}
            /\ RatLe(pixel_per_step, sx) /\ RatLe(pixel_per_step, sy)
            /\ pixel_per_step.n > 0 /\ pixel_per_step.d > 0
            /\ (aw = ah /\ pw = ph)
                   => pixel_per_step = sx /\ pixel_per_step = sy
            /\ (aw = ah /\ pw = 2 * ph)
                   => pixel_per_step = sy /\ RatLt(sy, sx)

C14_Witness ==
    /\ pc = "path"
    /\ x1 - x0 = y1 - y0 /\ x1 - x0 >= 1000
    /\ pbb[3] - pbb[1] = 2 * (pbb[4] - pbb[2])
    /\ pixel_per_step = sy /\ RatLt(sy, sx)

----------------------------------------------------------------------------
(* The document protocol *)

\* where a sequence of DocActs stands in the form
\*   DocOpenPathTitle (PageStartComment PageAddFragment+ PageEnd)+ DocClose
ProtocolStep(q, a) ==
    CASE q = "new"     /\ a = "DocOpenPathTitle" -> "open"
      [] q = "open"    /\ a = "PageStartComment" -> "empty_page"
      [] q = "empty_page" /\ a = "PageAddFragment" -> "page"
      [] q = "page"    /\ a = "PageAddFragment"  -> "page"
      [] q = "page"    /\ a = "PageEnd"          -> "between"
      [] q = "between" /\ a = "PageStartComment" -> "empty_page"
      [] q = "between" /\ a = "DocClose"         -> "closed"
      [] OTHER -> "bad"

RECURSIVE Protocol(_, _)
Protocol(t, k) ==
    IF k = 0 THEN "new" ELSE ProtocolStep(Protocol(t, k - 1), t[k].act)

PagesStarted(t) ==
    Cardinality({k \in 1..Len(t) : t[k].act = "PageStartComment"})

\* fragments added since the last PageStartComment
FragmentsOfPage(t) ==
    Cardinality({k \in 1..Len(t) :
                    /\ t[k].act = "PageAddFragment"
                    /\ \A j \in k..Len(t) : t[j].act # "PageStartComment"})

\* C19: on a fresh DocState a sequence of DocActs of the form
\* DocOpenPathTitle (PageStartComment PageAddFragment+ PageEnd)+ DocClose
\* passes every assertion; page_no counts the pages started and frag_no
\* the fragments of the current page.
C19_ProtocolPasses ==
    Protocol(trace, Len(trace)) # "bad" =>
        /\ pc # "panic_assert"
        /\ ds.page_no = PagesStarted(trace)
        /\ Protocol(trace, Len(trace)) # "closed"
               => ds.frag_no = FragmentsOfPage(trace)

C19_Witness ==
    /\ pc = "doc" /\ Len(trace) = 9
    /\ Protocol(trace, 9) = "closed"
    /\ ds.page_no = 2 /\ ds.indoc = FALSE

\* C20: once DocClose has succeeded, every further DocAct on the DocState
\* fails an assertion and leaves the state as it is.
C20_ClosedStep ==
    (pc = "doc" /\ \E k \in 1..Len(trace) : trace[k].act = "DocClose")
        => pc' = "panic_assert" /\ ds' = ds

C20_ClosedForGood == [][C20_ClosedStep]_vars

C20_Witness ==
    /\ pc = "panic_assert" /\ Len(trace) >= 6
    /\ trace[Len(trace) - 1].act = "DocClose"
    /\ trace[Len(trace)].act = "PageStartComment"
    /\ Protocol(trace, Len(trace) - 1) = "closed"

----------------------------------------------------------------------------
(* The driver *)

\* C16: a request for an order slot that is out of range of the order list
\* is rejected before the core runs: no expansion, interpretation or fit
\* is performed for it, no fragment is added to the page, and nothing
\* follows the rejection.
C16_Step ==
    /\ (pc = "slot" /\ iorder >= Len(lsys.order)) =>
           /\ pc' = "panic_index"
           /\ UNCHANGED <<ds, order, basic, post, rules, turtle, draw>>
    /\ pc # "panic_index"

C16_OutOfRangeRejected == [][C16_Step]_vars

C16_Witness ==
    /\ pc = "panic_index"
    /\ lsys.order = <<1>> /\ iorder = 1
    /\ ds.inpage /\ ds.frag_no = 2

\* C17: a curve whose rendering fails is skipped or reported and the
\* driver goes on with the remaining curves and closes the document: the
\* program is never stopped by an unmatched ']', an unimplemented action
\* or an order slot out of range.
C17_FailureIsolated ==
    pc \notin {"panic_pop", "panic_action", "panic_index"}

\* the chunks that parsed, in chunk order
Parsed(cs) == SelectSeq(cs, LAMBDA c : c.ok)

\* C18: the loader returns one record for every chunk that parses, in
\* chunk order; an empty order list has become [1,2,3,4] and everything
\* else in the record is as parsed.
C18_LoaderDefaults ==
    pc # "load" =>
        LET good == Parsed(chunks)
        IN  /\ Len(lsysv) = Len(good)
            /\ \A j \in 1..Len(good) :
                  LET r == good[j].lsys
                  IN  lsysv[j] = [r EXCEPT !.order = IF r.order = <<>>
                                                       THEN <<1, 2, 3, 4>>
                                                       ELSE r.order]

C18_Witness ==
    /\ pc # "load" /\ Len(chunks) = 2
    /\ ~chunks[1].ok /\ chunks[2].ok
    /\ chunks[2].lsys.order = <<>>
    /\ Len(lsysv) = 1 /\ lsysv[1].order = <<1, 2, 3, 4>>

----------------------------------------------------------------------------
(* Branches *)

\* the '[' that the ']' at position k of s closes
MatchOpen(s, k) ==
    CHOOSE m \in 1..(k - 1) :
        /\ s[m] = "["
        /\ BracketDepth(s, m - 1) = BracketDepth(s, k)
        /\ \A j \in m..(k - 1) : BracketDepth(s, j) > BracketDepth(s, k)

\* heading and position after the first k characters of s, by the meaning
\* of the characters: a ']' takes the turtle back to where it was at the
\* '[' it closes
RECURSIVE TurtleAt(_, _)
TurtleAt(s, k) ==
    IF k = 0 THEN <<0, 0, 0>>
    ELSE IF s[k] = "]" THEN TurtleAt(s, MatchOpen(s, k) - 1)
    ELSE LET t == TurtleAt(s, k - 1)
         IN  CASE s[k] = "F" -> <<t[1], t[2] + Cos(t[1]), t[3] + Sin(t[1])>>
               [] s[k] = "+" -> <<t[1] + lsys.angle * ROTATION, t[2], t[3]>>
               [] s[k] = "-" -> <<t[1] - lsys.angle * ROTATION, t[2], t[3]>>
               [] s[k] = "|" -> <<t[1] + HALF_TURN, t[2], t[3]>>
               [] OTHER -> t

\* C21: a ']' restores exactly the heading and position that were current
\* at its matching '[', through any nesting, and emits one relative move
\* from the position before the ']' to the restored one; a '[' changes
\* neither heading nor position and emits no command.
C21_Step ==
    /\ (pc = "dacts" /\ pc' = "dacts") =>
           <<d', x', y'>> = TurtleAt(rules, i' - 1)
    /\ (Scanning("]") /\ pc' = "dacts") =>
           /\ <<d', x', y'>> = TurtleAt(rules, MatchOpen(rules, i) - 1)
           /\ dacts' = Append(dacts, RmoveTo(x' - x, y' - y))
    /\ Scanning("[") => UNCHANGED <<d, x, y, dacts>>

C21_BranchRestored == [][C21_Step]_vars

\* an outer ']' has just taken the turtle back over a nested branch, to
\* another heading and another position
C21_Witness ==
    /\ pc = "dacts" /\ i > 1 /\ rules[i - 1] = "]"
    /\ \E m \in MatchOpen(rules, i - 1) + 1..i - 2 : rules[m] = "["
    /\ dacts[Len(dacts)].op = "RmoveTo"
    /\ dacts[Len(dacts)].dx # 0 /\ dacts[Len(dacts)].dy # 0
    /\ <<d, x, y>> = TurtleAt(rules, MatchOpen(rules, i - 1) - 1)
    /\ d # TurtleAt(rules, i - 2)[1]

----------------------------------------------------------------------------
(* Abstract commands and emitted commands *)

\* target center minus scale times the center of the abstract bounding box
OffsetX ==
    RatSub(Rat(pbb[1] + pbb[3], 2), RatMul(pixel_per_step, Rat(x0 + x1, 2)))

OffsetY ==
    RatSub(Rat(pbb[2] + pbb[4], 2), RatMul(pixel_per_step, Rat(y0 + y1, 2)))

\* where the abstract position after k commands is on the page
MappedX(k) == RatAdd(OffsetX, RatMul(pixel_per_step, Whole(PosX(k))))

MappedY(k) == RatAdd(OffsetY, RatMul(pixel_per_step, Whole(PosY(k))))

\* C22: after the k-th command has been emitted the running absolute
\* position is offset + scale * (abstract position after the k-th command),
\* with offset = target center - scale * abstract bounding-box center; the
\* bounding-box center maps to the target center, and the emitted commands
\* have the kinds and the order of the abstract commands.
C22_PathFollowsCommands ==
    Fitted =>
        /\ Len(svg) = idact - 1
        /\ path_x = MappedX(idact - 1)
        /\ path_y = MappedY(idact - 1)
        /\ RatAdd(OffsetX, RatMul(pixel_per_step, Rat(x0 + x1, 2)))
               = Rat(pbb[1] + pbb[3], 2)
        /\ RatAdd(OffsetY, RatMul(pixel_per_step, Rat(y0 + y1, 2)))
               = Rat(pbb[2] + pbb[4], 2)
        /\ \A k \in 1..Len(svg) :
              /\ svg[k].op = (IF dacts[k].op = "RmoveTo" THEN "M" ELSE "L")
              /\ svg[k].x = Format2(MappedX(k))
              /\ svg[k].y = Format2(MappedY(k))

\* a whole path with lines and a jump back, drawn at a scale other than 1
\* from a bounding box that is not centred on the origin
C22_Witness ==
    /\ pc = "drawn" /\ Len(svg) = Len(dacts)
    /\ \E k \in 2..Len(svg) : svg[k].op = "M" /\ dacts[k].dx # 0
    /\ \E k \in 2..Len(svg) : svg[k].op = "L" /\ dacts[k].dy # 0
    /\ pixel_per_step # Whole(1)
    /\ x0 + x1 # 0 /\ y0 + y1 # 0

----------------------------------------------------------------------------
(* Chunks *)

IsOpen(k)  == trim_end(json[k]) = <<"{">>

IsClose(k) == trim_end(json[k]) = <<"}">>

\* the last line before line e that is exactly "{", 0 if there is none
OpenBefore(e) ==
    LET opens == {b \in 1..(e - 1) : IsOpen(b)}
    IN  IF opens = {} THEN 0
        ELSE CHOOSE b \in opens : \A c \in opens : c <= b

\* the lines that end a chunk: exactly "}", with a "{" line before them
\* and no "}" line in between
ChunkEnds ==
    {e \in 1..Len(json) :
        /\ IsClose(e)
        /\ OpenBefore(e) > 0
        /\ \A j \in (OpenBefore(e) + 1)..(e - 1) : ~IsClose(j)}

\* the n-th of them
NthEnd(n) ==
    CHOOSE e \in ChunkEnds : Cardinality({f \in ChunkEnds : f <= e}) = n

\* C23: every chunk returned by json_to_chunks begins with a line that is
\* exactly "{" up to trailing white space, ends with the first following
\* line that is exactly "}", and has no other "{" line; a "{" line inside
\* an open chunk restarts the chunk, lines outside a chunk are ignored and
\* a chunk still open at the end of the text is not returned.
C23_ChunksAreObjects ==
    pc = "chunked" =>
        /\ Len(chunks) = Cardinality(ChunkEnds)
        /\ \A n \in 1..Len(chunks) :
              LET c == chunks[n]
              IN  /\ c = SubSeq(json, OpenBefore(NthEnd(n)), NthEnd(n))
                  /\ Len(c) >= 2
                  /\ trim_end(c[1]) = <<"{">>
                  /\ trim_end(c[Len(c)]) = <<"}">>
                  /\ \A k \in 2..Len(c) : trim_end(c[k]) # <<"{">>
                  /\ \A k \in 2..(Len(c) - 1) : trim_end(c[k]) # <<"}">>

\* a line outside, a chunk that is restarted, and a chunk left open
C23_Witness ==
    /\ pc = "chunked"
    /\ json = <<<<"x">>, <<"{">>, <<"{", " ">>, <<"}">>, <<"{">>>>
    /\ chunks = <<<<<<"{", " ">>, <<"}">>>>>>
    /\ inchunk

----------------------------------------------------------------------------
(* The document state *)

LastAct == IF trace = <<>> THEN "none" ELSE trace[Len(trace)].act

\* the pieces of one kind among the pieces f, in their order
Pieces(f, kind) == SelectSeq(f, LAMBDA piece : piece[1] = kind)

\* C24: in every DocState reached through doc() calls that pass their
\* assertions, inpage implies indoc and indoc or inpage implies that the
\* file is open; right after a PageEnd the buffer is empty and the file
\* holds the document header and every page so far, whole and in page
\* order.
C24_DocStateInvariant ==
    /\ ds.inpage => ds.indoc
    /\ (ds.indoc \/ ds.inpage) => ds.file.some
    /\ (pc = "doc" /\ LastAct = "PageEnd") =>
          LET f == ds.file.data
          IN  /\ ds.buf = <<>>
              /\ f[1][1] = "html_doc_head"
              /\ Len(Pieces(f, "html_doc_head")) = 1
              /\ Len(Pieces(f, "svg_page_head")) = ds.page_no
              /\ Len(Pieces(f, "svg_page_foot")) = ds.page_no
              /\ \A k \in 1..ds.page_no :
                    /\ Pieces(f, "svg_page_head")[k][2] = k
                    /\ Pieces(f, "svg_page_foot")[k][2] = k
              /\ f[Len(f)] = <<"svg_page_foot", ds.page_no>>
              /\ Len(Pieces(f, "frag"))
                    = Cardinality({k \in 1..Len(trace) :
                                      trace[k].act = "PageAddFragment"})

\* the second page has just been ended
C24_Witness ==
    /\ pc = "doc" /\ LastAct = "PageEnd"
    /\ ds.page_no = 2 /\ ds.indoc /\ ~ds.inpage
    /\ ds.buf = <<>>
    /\ Len(Pieces(ds.file.data, "html_page_sep")) = 1

----------------------------------------------------------------------------
(* Documents without content *)

\* this step is a call of doc() with the DocAct a
Calls(a) ==
    /\ Len(trace') = Len(trace) + 1
    /\ trace'[Len(trace')].act = a

Fails == pc' = "panic_assert" /\ ds' = ds

\* C25: DocClose fails an assertion when no page was ever started or
\* while a page is open, and PageEnd fails when the current page has no
\* fragment; main fails at DocClose when the loader returns an empty
\* catalog.
C25_Step ==
    /\ (Calls("DocClose") /\ (ds.page_no = 0 \/ ds.inpage)) => Fails
    /\ (Calls("PageEnd") /\ ds.frag_no = 0) => Fails
    /\ (pc = "for_lsys" /\ lsysv = <<>>) => Calls("DocClose") /\ Fails

C25_NoEmptyDocument == [][C25_Step]_vars

\* main has loaded nothing from the chunks it was given and has failed at
\* its DocClose
C25_Witness ==
    /\ pc = "panic_assert"
    /\ chunks # <<>> /\ lsysv = <<>>
    /\ Len(trace) = 2 /\ LastAct = "DocClose"
    /\ ds.indoc /\ ds.page_no = 0

====
